---------------------------- MODULE Spec2Model ----------------------------
(***************************************************************************)
(* A model of scripts/boolean_search.py: the Tavily search client, the     *)
(* job-posting classifier, the seen-URL filter, the report formatter and   *)
(* the orchestrating main().                                               *)
(*                                                                         *)
(* Text is modelled at the level of characters: a Python str is a          *)
(* sequence of one-character strings, so that `in`, lower(), strip(),      *)
(* slicing, f-strings and "\n".join are computed, not assumed.             *)
(***************************************************************************)
EXTENDS Integers, Sequences, FiniteSets, TLC

(***************************************************************************)
(* Python str operations                                                   *)
(***************************************************************************)

\* The elements of a sequence.
Range(s) == {s[k] : k \in 1..Len(s)}

UpperCase == (* "ABCDEFGHIJKLMNOPQRSTUVWXYZ" *) <<"A", "B", "C", "D", "E", "F", "G", "H", "I", "J", "K", "L", "M", "N", "O", "P", "Q", "R", "S", "T", "U", "V", "W", "X", "Y", "Z">>
LowerCase == (* "abcdefghijklmnopqrstuvwxyz" *) <<"a", "b", "c", "d", "e", "f", "g", "h", "i", "j", "k", "l", "m", "n", "o", "p", "q", "r", "s", "t", "u", "v", "w", "x", "y", "z">>

\* str.lower() on one character (ASCII letters; every other character of the
\* model's texts is its own lower case).
LowerOf == [c \in Range(UpperCase) |-> LowerCase[CHOOSE k \in 1..Len(UpperCase) : UpperCase[k] = c]]

LowerChar(c) == IF c \in DOMAIN LowerOf THEN LowerOf[c] ELSE c

\* str.lower()
RECURSIVE lower(_)
lower(s) == IF s = <<>> THEN <<>> ELSE <<LowerChar(Head(s))>> \o lower(Tail(s))

\* Python's `p in s` for two strs: p occurs in s as a contiguous run.
Contains(p, s) ==
    \E k \in 1..(Len(s) - Len(p) + 1) : \A j \in 1..Len(p) : s[k + j - 1] = p[j]

\* s[:n]
Take(s, n) == SubSeq(s, 1, IF Len(s) < n THEN Len(s) ELSE n)

Whitespace == {" ", "\t", "\n", "\r"}

\* str.strip(): drop leading and trailing whitespace.
RECURSIVE lstrip(_)
lstrip(s) == IF s # <<>> /\ Head(s) \in Whitespace THEN lstrip(Tail(s)) ELSE s

RECURSIVE rstrip(_)
rstrip(s) ==
    IF s # <<>> /\ s[Len(s)] \in Whitespace
    THEN rstrip(SubSeq(s, 1, Len(s) - 1))
    ELSE s

strip(s) == rstrip(lstrip(s))

\* str(n) for a natural number n.
Digits == (* "0123456789" *) <<"0", "1", "2", "3", "4", "5", "6", "7", "8", "9">>

RECURSIVE Dec(_)
Dec(n) == IF n < 10 THEN <<Digits[n + 1]>> ELSE Dec(n \div 10) \o <<Digits[(n % 10) + 1]>>

\* sep.join(parts)
RECURSIVE Join(_, _)
Join(sep, parts) ==
    IF parts = <<>> THEN <<>>
    ELSE IF Len(parts) = 1 THEN parts[1]
    ELSE parts[1] \o sep \o Join(sep, Tail(parts))

(***************************************************************************)
(* JSON values as the response carries them: a string, a number or null.   *)
(* A value is its kind and its text (for a number, its literal).           *)
(***************************************************************************)

Str(s) == [kind |-> "string", text |-> s]
Num(s) == [kind |-> "number", text |-> s]
Null == [kind |-> "null", text |-> <<>>]

\* Python truthiness of a value: "" , 0 and None are falsy.
Truthy(v) ==
    CASE v.kind = "string" -> v.text # <<>>
      [] v.kind = "number" -> v.text # <<"0">>
      [] OTHER -> FALSE

\* `v or ""`
OrEmpty(v) == IF Truthy(v) THEN v ELSE Str(<<>>)

(***************************************************************************)
(* The classifier                                                          *)
(***************************************************************************)

ATS_JOB_PATTERNS ==
    << (* "greenhouse.io" *) <<"g", "r", "e", "e", "n", "h", "o", "u", "s", "e", ".", "i", "o">>,
       (* "lever.co" *) <<"l", "e", "v", "e", "r", ".", "c", "o">>,
       (* "myworkdayjobs.com" *) <<"m", "y", "w", "o", "r", "k", "d", "a", "y", "j", "o", "b", "s", ".", "c", "o", "m">>,
       (* "careers.icims.com" *) <<"c", "a", "r", "e", "e", "r", "s", ".", "i", "c", "i", "m", "s", ".", "c", "o", "m">>,
       (* "/jobs/" *) <<"/", "j", "o", "b", "s", "/">>,
       (* "/job/" *) <<"/", "j", "o", "b", "/">>,
       (* "/careers/" *) <<"/", "c", "a", "r", "e", "e", "r", "s", "/">>,
       (* "/opening/" *) <<"/", "o", "p", "e", "n", "i", "n", "g", "/">>,
       (* "/apply/" *) <<"/", "a", "p", "p", "l", "y", "/">>,
       (* "/position/" *) <<"/", "p", "o", "s", "i", "t", "i", "o", "n", "/">> >>

bad_signals ==
    << (* "/blog/" *) <<"/", "b", "l", "o", "g", "/">>,
       (* "/news/" *) <<"/", "n", "e", "w", "s", "/">>,
       (* "/press/" *) <<"/", "p", "r", "e", "s", "s", "/">>,
       (* "/about/" *) <<"/", "a", "b", "o", "u", "t", "/">>,
       (* "/company/" *) <<"/", "c", "o", "m", "p", "a", "n", "y", "/">>,
       (* "/search?" *) <<"/", "s", "e", "a", "r", "c", "h", "?">> >>

job_title_signals ==
    << (* "manager" *) <<"m", "a", "n", "a", "g", "e", "r">>,
       (* "director" *) <<"d", "i", "r", "e", "c", "t", "o", "r">>,
       (* "engineer" *) <<"e", "n", "g", "i", "n", "e", "e", "r">>,
       (* "analyst" *) <<"a", "n", "a", "l", "y", "s", "t">>,
       (* "specialist" *) <<"s", "p", "e", "c", "i", "a", "l", "i", "s", "t">>,
       (* "lead" *) <<"l", "e", "a", "d">>,
       (* "associate" *) <<"a", "s", "s", "o", "c", "i", "a", "t", "e">>,
       (* "coordinator" *) <<"c", "o", "o", "r", "d", "i", "n", "a", "t", "o", "r">> >>

\* any(p in s for p in patterns)
AnyIn(patterns, s) == \E k \in 1..Len(patterns) : Contains(patterns[k], s)

\* is_job_posting raises AttributeError when `item.get("url") or ""` or
\* `item.get("title") or ""` is not a str: .lower() is applied to both before
\* any test is made.
is_job_posting_raises(item) ==
    \/ OrEmpty(item.url).kind # "string"
    \/ OrEmpty(item.title).kind # "string"

\* The checks in the wrong order: the bad signals before the ATS patterns.
is_job_posting_bad_first(item) ==
    LET url == lower(OrEmpty(item.url).text)
        title == lower(OrEmpty(item.title).text)
    IN  IF AnyIn(bad_signals, url) THEN FALSE
        ELSE IF AnyIn(ATS_JOB_PATTERNS, url) THEN TRUE
        ELSE AnyIn(job_title_signals, title)

is_job_posting(item) ==
    LET url == lower(OrEmpty(item.url).text)
        title == lower(OrEmpty(item.title).text)
    IN  IF AnyIn(ATS_JOB_PATTERNS, url) THEN TRUE
        ELSE IF AnyIn(bad_signals, url) THEN FALSE
        ELSE AnyIn(job_title_signals, title)

(***************************************************************************)
(* The search client                                                       *)
(***************************************************************************)

MAX_RESULTS_CAP == 20
DESCRIPTION_LIMIT == 200

Min(a, b) == IF a < b THEN a ELSE b

\* A cap that is not applied: the requested count is sent as it is.
MaxResultsUncapped(num_results) == num_results

\* min(num_results, 20)
MaxResultsField(num_results) == Min(num_results, MAX_RESULTS_CAP)

\* The JSON body of the POST.
Payload(query_string, num_results, api_key, days_back) ==
    [ api_key |-> api_key,
      query |-> query_string,
      search_depth |-> "basic",
      max_results |-> MaxResultsField(num_results),
      days |-> days_back ]

\* One element of the "results" array made uniform.  (content or "")[:200]
\* raises TypeError for a truthy content that is not a str.
NormaliseRaises(r) == OrEmpty(r.content).kind # "string"

Normalise(r) ==
    [ url |-> r.url,
      title |-> r.title,
      description |-> Take(OrEmpty(r.content).text, DESCRIPTION_LIMIT) ]

\* What run_query returns for the response the network gives.  A response is
\*   kind "transport": requests.post raises (connection error, timeout);
\*   kind "http":      raise_for_status raises HTTPError (status 401, 429, ...);
\*   kind "bad_body":  resp.json() raises, or the body is no object with a
\*                     list of objects under "results";
\*   kind "ok":        a 2xx response whose body holds the list `results`.
\* Every exception raised inside the try block is caught and yields [].
run_query_result(resp) ==
    IF resp.kind # "ok" THEN <<>>
    ELSE IF \E k \in 1..Len(resp.results) : NormaliseRaises(resp.results[k]) THEN <<>>
    ELSE [k \in 1..Len(resp.results) |-> Normalise(resp.results[k])]

\* run_query: the requests it sends (exactly one POST) and the list it returns.
run_query(query_string, num_results, api_key, days_back, resp) ==
    [ sent |-> <<Payload(query_string, num_results, api_key, days_back)>>,
      result |-> run_query_result(resp) ]

(***************************************************************************)
(* History and the seen-URL filter                                         *)
(***************************************************************************)

\* The history file: missing, or its lines (p.read_text().splitlines()).
\* The set holds the stripped non-blank lines.
load_job_history(file) ==
    IF ~file.exists THEN {}
    ELSE {Str(strip(file.lines[k])) : k \in {j \in 1..Len(file.lines) : strip(file.lines[j]) # <<>>}}

\* A filter that keeps everything.
filter_new_results_keep_all(results, seen_urls) == results

filter_new_results(results, seen_urls) ==
    SelectSeq(results, LAMBDA r : r.url \notin seen_urls)

(***************************************************************************)
(* The report formatter                                                    *)
(***************************************************************************)

\* str(v) as an f-string renders a field.
PyStr(v) == IF v.kind = "null" THEN (* "None" *) <<"N", "o", "n", "e">> ELSE v.text

\* results_by_query is a dict in insertion order: a sequence of
\* [name, results] entries with distinct names.
DictKeys(d) == {d[k].name : k \in 1..Len(d)}

\* d[name] = results: a new key is appended, an existing key keeps its place.
DictSet(d, name, results) ==
    IF name \in DictKeys(d)
    THEN [k \in 1..Len(d) |-> IF d[k].name = name THEN [name |-> name, results |-> results] ELSE d[k]]
    ELSE Append(d, [name |-> name, results |-> results])

\* sum(len(v) for v in results_by_query.values())
RECURSIVE TotalResults(_)
TotalResults(d) == IF d = <<>> THEN 0 ELSE Len(Head(d).results) + TotalResults(Tail(d))

HeaderLines(run_date) ==
    << (* "=== BOOLEAN SEARCH RESULTS - " *) <<"=", "=", "=", " ", "B", "O", "O", "L", "E", "A", "N", " ", "S", "E", "A", "R", "C", "H", " ", "R", "E", "S", "U", "L", "T", "S", " ", "-", " ">> \o run_date \o (* " ===" *) <<" ", "=", "=", "=">>,
       (* "Source: Direct ATS search via Tavily (Greenhouse, Lever, Workday, ICIMS)" *) <<"S", "o", "u", "r", "c", "e", ":", " ", "D", "i", "r", "e", "c", "t", " ", "A", "T", "S", " ", "s", "e", "a", "r", "c", "h", " ", "v", "i", "a", " ", "T", "a", "v", "i", "l", "y", " ", "(", "G", "r", "e", "e", "n", "h", "o", "u", "s", "e", ",", " ", "L", "e", "v", "e", "r", ",", " ", "W", "o", "r", "k", "d", "a", "y", ",", " ", "I", "C", "I", "M", "S", ")">>,
       <<>> >>

NO_RESULTS_SENTENCE == (* "No new job postings found via Boolean search today." *) <<"N", "o", " ", "n", "e", "w", " ", "j", "o", "b", " ", "p", "o", "s", "t", "i", "n", "g", "s", " ", "f", "o", "u", "n", "d", " ", "v", "i", "a", " ", "B", "o", "o", "l", "e", "a", "n", " ", "s", "e", "a", "r", "c", "h", " ", "t", "o", "d", "a", "y", ".">>

\* The five lines of result number i.
ResultLines(i, item) ==
    << (* "--- Result " *) <<"-", "-", "-", " ", "R", "e", "s", "u", "l", "t", " ">> \o Dec(i) \o (* " ---" *) <<" ", "-", "-", "-">>,
       (* "Title: " *) <<"T", "i", "t", "l", "e", ":", " ">> \o PyStr(item.title),
       (* "URL: " *) <<"U", "R", "L", ":", " ">> \o PyStr(item.url),
       (* "Snippet: " *) <<"S", "n", "i", "p", "p", "e", "t", ":", " ">> \o item.description,
       (* "---" *) <<"-", "-", "-">> >>

RECURSIVE AllResultLines(_, _)
AllResultLines(results, i) ==
    IF i > Len(results) THEN <<>>
    ELSE ResultLines(i, results[i]) \o AllResultLines(results, i + 1)

\* The section of one query; a query with no results is skipped.
SectionLines(entry) ==
    IF entry.results = <<>> THEN <<>>
    ELSE << (* "Query: \"" *) <<"Q", "u", "e", "r", "y", ":", " ", "\"">> \o entry.name \o (* "\"" *) <<"\"">> >> \o AllResultLines(entry.results, 1) \o << <<>> >>

RECURSIVE AllSectionLines(_)
AllSectionLines(d) == IF d = <<>> THEN <<>> ELSE SectionLines(Head(d)) \o AllSectionLines(Tail(d))

\* The header alone is dropped: only the sentence is returned.
format_as_text_block_no_header(results_by_query, run_date) ==
    IF TotalResults(results_by_query) = 0
    THEN NO_RESULTS_SENTENCE
    ELSE Join(<<"\n">>, HeaderLines(run_date) \o AllSectionLines(results_by_query))

format_as_text_block(results_by_query, run_date) ==
    IF TotalResults(results_by_query) = 0
    THEN Join(<<"\n">>, HeaderLines(run_date) \o <<NO_RESULTS_SENTENCE>>)
    ELSE Join(<<"\n">>, HeaderLines(run_date) \o AllSectionLines(results_by_query))

(***************************************************************************)
(* The inputs of a run                                                     *)
(***************************************************************************)

MaxQueries == 2
MaxItems == 2

DEFAULT_RESULTS_PER_QUERY == 10
DEFAULT_DELAY == 2
DEFAULT_DAYS_BACK == 7

URL_GH == (* "https://greenhouse.io/acme/1" *) <<"h", "t", "t", "p", "s", ":", "/", "/", "g", "r", "e", "e", "n", "h", "o", "u", "s", "e", ".", "i", "o", "/", "a", "c", "m", "e", "/", "1">>
URL_PLAIN == (* "https://acme.dev/roles/7" *) <<"h", "t", "t", "p", "s", ":", "/", "/", "a", "c", "m", "e", ".", "d", "e", "v", "/", "r", "o", "l", "e", "s", "/", "7">>
URL_BLOG == (* "https://acme.dev/blog/hiring" *) <<"h", "t", "t", "p", "s", ":", "/", "/", "a", "c", "m", "e", ".", "d", "e", "v", "/", "b", "l", "o", "g", "/", "h", "i", "r", "i", "n", "g">>

\* The well-formed elements a "results" array is drawn from: an ATS posting,
\* a posting recognised by its title, and a blog page.
RawItems ==
    { [url |-> Str(URL_GH), title |-> Str((* "Data Analyst" *) <<"D", "a", "t", "a", " ", "A", "n", "a", "l", "y", "s", "t">>), content |-> Str((* "Remote" *) <<"R", "e", "m", "o", "t", "e">>)],
      [url |-> Str(URL_PLAIN), title |-> Str((* "Staff Engineer" *) <<"S", "t", "a", "f", "f", " ", "E", "n", "g", "i", "n", "e", "e", "r">>), content |-> Null],
      [url |-> Str(URL_BLOG), title |-> Str((* "Lead Engineer" *) <<"L", "e", "a", "d", " ", "E", "n", "g", "i", "n", "e", "e", "r">>), content |-> Str((* "Post" *) <<"P", "o", "s", "t">>)] }

\* Elements that are not of the documented shape: a url that is a number, a
\* content that is a number.
ITEM_NUM_URL == [url |-> Num((* "123" *) <<"1", "2", "3">>), title |-> Str((* "Engineer" *) <<"E", "n", "g", "i", "n", "e", "e", "r">>), content |-> Str((* "n/a" *) <<"n", "/", "a">>)]
ITEM_NUM_CONTENT == [url |-> Str(URL_PLAIN), title |-> Str((* "Manager" *) <<"M", "a", "n", "a", "g", "e", "r">>), content |-> Num((* "7" *) <<"7">>)]

ItemLists ==
    UNION {[1..n -> RawItems] : n \in 0..MaxItems}
    \cup { <<ITEM_NUM_URL>>, <<ITEM_NUM_CONTENT>> }

Responses ==
    { [kind |-> "transport", status |-> 0, results |-> <<>>],
      [kind |-> "bad_body", status |-> 200, results |-> <<>>] }
    \cup { [kind |-> "http", status |-> st, results |-> <<>>] : st \in {401, 429, 500} }
    \cup { [kind |-> "ok", status |-> 200, results |-> l] : l \in ItemLists }

\* The classifier tabulated over the items run_query can return here.
ResultItems == {Normalise(r) : r \in RawItems}

is_job_posting_of == [item \in ResultItems |-> is_job_posting(item)]

IsJobPosting(item) == is_job_posting_of[item]

\* The entries of the config's "queries"; "enabled" may be absent, and an
\* entry may occur twice.
QueryChoices ==
    { [name |-> (* "gh" *) <<"g", "h">>, string |-> (* "site:greenhouse.io pm" *) <<"s", "i", "t", "e", ":", "g", "r", "e", "e", "n", "h", "o", "u", "s", "e", ".", "i", "o", " ", "p", "m">>, enabled |-> "true"],
      [name |-> (* "lever" *) <<"l", "e", "v", "e", "r">>, string |-> (* "site:lever.co pm" *) <<"s", "i", "t", "e", ":", "l", "e", "v", "e", "r", ".", "c", "o", " ", "p", "m">>, enabled |-> "absent"],
      [name |-> (* "old" *) <<"o", "l", "d">>, string |-> (* "site:icims.com" *) <<"s", "i", "t", "e", ":", "i", "c", "i", "m", "s", ".", "c", "o", "m">>, enabled |-> "false"] }

QueryLists == UNION {[1..n -> QueryChoices] : n \in 0..MaxQueries}

\* The config's "settings": absent keys take the defaults.
SettingsChoices ==
    << [k \in {} |-> 0],
       [results_per_query |-> 25, delay_between_queries_seconds |-> 0, days_back |-> 3] >>

\* The history file: missing, or with a padded URL, a blank line and a line
\* of whitespace.
HistoryFiles ==
    { [exists |-> FALSE, lines |-> <<>>],
      [exists |-> TRUE, lines |-> << <<" ">> \o URL_GH \o <<" ", "\t">>, <<>>, <<" ", " ">> >>] }

ApiKeys == { <<>>, (* "tvly-k" *) <<"t", "v", "l", "y", "-", "k">> }

RunDates == { (* "2024-05-01" *) <<"2", "0", "2", "4", "-", "0", "5", "-", "0", "1">> }

\* settings.get(key, default)
Get(settings, key, default) == IF key \in DOMAIN settings THEN settings[key] ELSE default

\* q.get("enabled", True)
IsEnabled(q) == q.enabled # "false"

\* [q for q in config.get("queries", []) if q.get("enabled", True)]
EnabledQueries(cfg) == SelectSeq(cfg, IsEnabled)

(***************************************************************************)
(* The state of a run of main()                                            *)
(***************************************************************************)

VARIABLES
    config_exists,     \* the config file is there
    cfg_queries,       \* the config's "queries"
    cfg_settings,      \* the config's "settings"
    dry_run,           \* --dry-run
    api_key,           \* --api-key or BOOLEAN_TAVILY_API_KEY
    to_file,           \* --output is given
    history_file,      \* the history file on disk
    pc,                \* where main() is
    queries,           \* the enabled queries
    i,                 \* the loop index (from 0)
    seen_urls,         \* the cumulative seen-set
    results_by_query,  \* the dict of new results per query name
    total_new,         \* the summary counter
    requests,          \* the POST bodies sent so far
    events,            \* requests, pauses and the report, in order
    job_urls,          \* per query: the URLs classified as job postings
    stdout,            \* what print() wrote to standard output
    file_text,         \* what was written to --output
    summary,           \* the final line for the operator
    exit_status,       \* the process exit status (-1 while running)
    cl_item, cl_verdict,            \* the classifier applied to one item
    fm_dict, fm_date, fm_text,      \* the formatter applied to one dict
    rq_num, rq_resp, rq_out         \* run_query applied to one response

inputs == <<config_exists, cfg_queries, cfg_settings, dry_run, api_key, to_file, history_file>>
locals == <<queries, i, seen_urls, results_by_query, total_new>>
effects == <<requests, events, job_urls, stdout, file_text, summary, exit_status>>
units == <<cl_item, cl_verdict, fm_dict, fm_date, fm_text, rq_num, rq_resp, rq_out>>
vars == <<inputs, pc, locals, effects, units>>

NoText == <<"<none>">>

num_results == Get(cfg_settings, "results_per_query", DEFAULT_RESULTS_PER_QUERY)
delay == Get(cfg_settings, "delay_between_queries_seconds", DEFAULT_DELAY)
days_back == Get(cfg_settings, "days_back", DEFAULT_DAYS_BACK)

ClassifyIdle ==
    /\ cl_item = [url |-> Null, title |-> Null]
    /\ cl_verdict = "none"

FormatIdle ==
    /\ fm_dict = <<>>
    /\ fm_date = <<>>
    /\ fm_text = NoText

QueryIdle ==
    /\ rq_num = 0
    /\ rq_resp = [kind |-> "transport", status |-> 0, results |-> <<>>]
    /\ rq_out = [sent |-> <<>>, result |-> <<>>]

MainIdle ==
    /\ config_exists = FALSE
    /\ cfg_queries = <<>>
    /\ cfg_settings = SettingsChoices[1]
    /\ dry_run = FALSE
    /\ api_key = <<>>
    /\ to_file = FALSE
    /\ history_file = [exists |-> FALSE, lines |-> <<>>]

MainStart ==
    /\ queries = <<>>
    /\ i = 0
    /\ seen_urls = {}
    /\ results_by_query = <<>>
    /\ total_new = 0
    /\ requests = <<>>
    /\ events = <<>>
    /\ job_urls = <<>>
    /\ stdout = <<>>
    /\ file_text = NoText
    /\ summary = NoText
    /\ exit_status = -1

Init ==
    /\ config_exists \in BOOLEAN
    /\ cfg_queries \in QueryLists
    /\ \E k \in 1..Len(SettingsChoices) : cfg_settings = SettingsChoices[k]
    /\ dry_run \in BOOLEAN
    /\ api_key \in ApiKeys
    /\ to_file \in BOOLEAN
    /\ history_file \in HistoryFiles
    /\ pc = "start"
    /\ MainStart
    /\ ClassifyIdle
    /\ FormatIdle
    /\ QueryIdle

(***************************************************************************)
(* main()                                                                  *)
(***************************************************************************)

\* The same decisions with the credential checked before the dry-run flag.
StartupOutcomeKeyFirst ==
    IF ~config_exists THEN "config_missing"
    ELSE IF EnabledQueries(cfg_queries) = <<>> THEN "no_queries"
    ELSE IF api_key = <<>> THEN "missing_key"
    ELSE IF dry_run THEN "dry_run"
    ELSE "run"

\* The same decisions without the credential check.
StartupOutcomeNoKeyCheck ==
    IF ~config_exists THEN "config_missing"
    ELSE IF EnabledQueries(cfg_queries) = <<>> THEN "no_queries"
    ELSE IF dry_run THEN "dry_run"
    ELSE "run"

\* Which way main() goes before the loop, in the order of its checks.
StartupOutcome ==
    IF ~config_exists THEN "config_missing"
    ELSE IF EnabledQueries(cfg_queries) = <<>> THEN "no_queries"
    ELSE IF dry_run THEN "dry_run"
    ELSE IF api_key = <<>> THEN "missing_key"
    ELSE "run"

Exit(status) ==
    /\ pc' = "done"
    /\ exit_status' = status

\* load_config raises FileNotFoundError: a message, sys.exit(0).
ConfigMissing ==
    /\ pc = "start"
    /\ StartupOutcome = "config_missing"
    /\ Exit(0)
    /\ UNCHANGED <<inputs, locals, requests, events, job_urls, stdout, file_text, summary, units>>

\* No enabled query: a message, sys.exit(0).
NoQueries ==
    /\ pc = "start"
    /\ StartupOutcome = "no_queries"
    /\ Exit(0)
    /\ UNCHANGED <<inputs, locals, requests, events, job_urls, stdout, file_text, summary, units>>

\* print(f"  [{q['name']}]\n  {q['string']}\n")
DryRunDescription(q) ==
    (* "  [" *) <<" ", " ", "[">> \o q.name \o (* "]\n  " *) <<"]", "\n", " ", " ">> \o q.string \o <<"\n">>

\* The one non-ASCII character of the header, U+2014, as one element.
EM_DASH == "U+2014"

DryRunHeader(n) ==
    (* "[BOOLEAN] DRY RUN " *) <<"[", "B", "O", "O", "L", "E", "A", "N", "]", " ", "D", "R", "Y", " ", "R", "U", "N", " ">> \o <<EM_DASH>> \o (* " " *) <<" ">> \o Dec(n) \o (* " queries, days_back=" *) <<" ", "q", "u", "e", "r", "i", "e", "s", ",", " ", "d", "a", "y", "s", "_", "b", "a", "c", "k", "=">> \o Dec(days_back)

\* --dry-run: the header and one description per enabled query, sys.exit(0).
DryRun ==
    /\ pc = "start"
    /\ StartupOutcome = "dry_run"
    /\ LET qs == EnabledQueries(cfg_queries)
       IN  stdout' = <<DryRunHeader(Len(qs))>> \o [k \in 1..Len(qs) |-> DryRunDescription(qs[k])]
    /\ Exit(0)
    /\ UNCHANGED <<inputs, locals, requests, events, job_urls, file_text, summary, units>>

\* No API key: setup instructions, sys.exit(0).
MissingKey ==
    /\ pc = "start"
    /\ StartupOutcome = "missing_key"
    /\ Exit(0)
    /\ UNCHANGED <<inputs, locals, requests, events, job_urls, stdout, file_text, summary, units>>

\* The history is loaded and the loop is entered.
BeginRun ==
    /\ pc = "start"
    /\ StartupOutcome = "run"
    /\ queries' = EnabledQueries(cfg_queries)
    /\ seen_urls' = load_job_history(history_file)
    /\ results_by_query' = <<>>
    /\ total_new' = 0
    /\ i' = 0
    /\ pc' = "loop"
    /\ UNCHANGED <<inputs, effects, units>>

\* A pause after every query, the last one too.
ShouldSleepAfterLast(idx, n) == delay > 0

\* if i < len(queries) - 1 and delay > 0
ShouldSleep(idx, n) == idx < n - 1 /\ delay > 0

\* The URLs of a query's job_results.
JobUrls(job_results) == {job_results[k].url : k \in 1..Len(job_results)}

\* One pass of the loop body, for the response the network gives.  An item
\* on which is_job_posting raises ends main() with a traceback: exit status 1.
RunNextQuery(resp) ==
    /\ pc = "loop"
    /\ LET q == queries[i + 1]
           rq == run_query(q.string, num_results, api_key, days_back, resp)
           raw == rq.result
       IN  /\ requests' = requests \o rq.sent
           /\ events' = Append(events, <<"request", i>>)
           /\ IF \E k \in 1..Len(raw) : is_job_posting_raises(raw[k])
              THEN /\ pc' = "crashed"
                   /\ exit_status' = 1
                   /\ UNCHANGED <<locals, job_urls>>
              ELSE LET job_results == SelectSeq(raw, IsJobPosting)
                       new_results == filter_new_results(job_results, seen_urls)
                   IN  /\ total_new' = total_new + Len(new_results)
                       /\ seen_urls' = seen_urls \cup {new_results[k].url : k \in 1..Len(new_results)}
                       /\ results_by_query' = DictSet(results_by_query, q.name, new_results)
                       /\ job_urls' = Append(job_urls, JobUrls(job_results))
                       /\ IF ShouldSleep(i, Len(queries))
                          THEN pc' = "sleep" /\ i' = i
                          ELSE /\ i' = i + 1
                               /\ pc' = IF i + 1 < Len(queries) THEN "loop" ELSE "format"
                       /\ UNCHANGED <<queries, exit_status>>
    /\ UNCHANGED <<inputs, stdout, file_text, summary, units>>

Query == \E resp \in Responses : RunNextQuery(resp)

\* time.sleep(delay), then the next pass.
Sleep ==
    /\ pc = "sleep"
    /\ events' = Append(events, <<"sleep", i>>)
    /\ i' = i + 1
    /\ pc' = IF i + 1 < Len(queries) THEN "loop" ELSE "format"
    /\ UNCHANGED <<inputs, queries, seen_urls, results_by_query, total_new>>
    /\ UNCHANGED <<requests, job_urls, stdout, file_text, summary, exit_status, units>>

SummaryLine(count, n) ==
    (* "[BOOLEAN] " *) <<"[", "B", "O", "O", "L", "E", "A", "N", "]", " ">> \o Dec(count) \o (* " new jobs found across " *) <<" ", "n", "e", "w", " ", "j", "o", "b", "s", " ", "f", "o", "u", "n", "d", " ", "a", "c", "r", "o", "s", "s", " ">> \o Dec(n) \o (* " queries" *) <<" ", "q", "u", "e", "r", "i", "e", "s">>

\* The report is formatted and written to --output or printed, the summary
\* goes to the operator, sys.exit(0).
Emit ==
    /\ pc = "format"
    /\ \E run_date \in RunDates :
          LET output_text == format_as_text_block(results_by_query, run_date)
          IN  IF to_file
              THEN file_text' = output_text /\ UNCHANGED stdout
              ELSE stdout' = Append(stdout, output_text) /\ UNCHANGED file_text
    /\ events' = Append(events, <<"emit", i>>)
    /\ summary' = SummaryLine(total_new, Len(queries))
    /\ Exit(0)
    /\ UNCHANGED <<inputs, locals, requests, job_urls, units>>

Next ==
    \/ ConfigMissing
    \/ NoQueries
    \/ DryRun
    \/ MissingKey
    \/ BeginRun
    \/ Query
    \/ Sleep
    \/ Emit

Spec == Init /\ [][Next]_vars

(***************************************************************************)
(* The classifier, the formatter and the search client on their own        *)
(***************************************************************************)

MaxPieces == 2
MaxNumResults == 25

\* What the URLs handed to the classifier are made of: every pattern of the
\* two URL lists, a host, and near misses.
UrlPieces ==
    Range(ATS_JOB_PATTERNS) \cup Range(bad_signals)
    \cup { (* "https://acme.dev" *) <<"h", "t", "t", "p", "s", ":", "/", "/", "a", "c", "m", "e", ".", "d", "e", "v">>, (* "/Blog/" *) <<"/", "B", "l", "o", "g", "/">>, (* "GREENHOUSE.IO" *) <<"G", "R", "E", "E", "N", "H", "O", "U", "S", "E", ".", "I", "O">>, (* "/job" *) <<"/", "j", "o", "b">>, (* "/roles/7" *) <<"/", "r", "o", "l", "e", "s", "/", "7">> }

RECURSIVE Concat(_)
Concat(parts) == IF parts = <<>> THEN <<>> ELSE Head(parts) \o Concat(Tail(parts))

ClassifyUrls ==
    { Str(Concat(ps)) : ps \in UNION {[1..n -> UrlPieces] : n \in 0..MaxPieces} }
    \cup { Null, Num((* "123" *) <<"1", "2", "3">>) }

ClassifyTitles ==
    { Str((* "Staff Engineer" *) <<"S", "t", "a", "f", "f", " ", "E", "n", "g", "i", "n", "e", "e", "r">>), Str((* "Our Company Blog" *) <<"O", "u", "r", " ", "C", "o", "m", "p", "a", "n", "y", " ", "B", "l", "o", "g">>), Str((* "Marketing Analyst" *) <<"M", "a", "r", "k", "e", "t", "i", "n", "g", " ", "A", "n", "a", "l", "y", "s", "t">>),
      Str((* "TEAM LEAD" *) <<"T", "E", "A", "M", " ", "L", "E", "A", "D">>), Str((* "Pleading Guilty" *) <<"P", "l", "e", "a", "d", "i", "n", "g", " ", "G", "u", "i", "l", "t", "y">>), Str(<<>>), Null, Num((* "5" *) <<"5">>) }

\* is_job_posting applied to one item.
InitClassify ==
    /\ MainIdle
    /\ MainStart
    /\ pc = "unit"
    /\ cl_item \in [url : ClassifyUrls, title : ClassifyTitles]
    /\ cl_verdict = "none"
    /\ FormatIdle
    /\ QueryIdle

Classify ==
    /\ pc = "unit"
    /\ cl_verdict = "none"
    /\ cl_verdict' =
          IF is_job_posting_raises(cl_item) THEN "AttributeError"
          ELSE IF is_job_posting(cl_item) THEN "True"
          ELSE "False"
    /\ UNCHANGED <<inputs, pc, locals, effects, cl_item>>
    /\ UNCHANGED <<fm_dict, fm_date, fm_text, rq_num, rq_resp, rq_out>>

SpecClassify == InitClassify /\ [][Classify]_vars

\* format_as_text_block applied to one dict.
FormatItems ==
    { [url |-> Str(URL_GH), title |-> Str((* "Data Analyst" *) <<"D", "a", "t", "a", " ", "A", "n", "a", "l", "y", "s", "t">>), description |-> (* "Remote" *) <<"R", "e", "m", "o", "t", "e">>],
      [url |-> Str(URL_PLAIN), title |-> Str((* "Staff Engineer" *) <<"S", "t", "a", "f", "f", " ", "E", "n", "g", "i", "n", "e", "e", "r">>), description |-> <<>>] }

FormatLists == UNION {[1..n -> FormatItems] : n \in 0..MaxItems}

FormatNames == << (* "gh" *) <<"g", "h">>, (* "lever" *) <<"l", "e", "v", "e", "r">> >>

\* The dicts over keys drawn, without repetition, from FormatNames.
FormatDicts ==
    { <<>> }
    \cup { <<[name |-> FormatNames[a], results |-> l]>> : a \in 1..2, l \in FormatLists }
    \cup { <<[name |-> FormatNames[a], results |-> l], [name |-> FormatNames[3 - a], results |-> m]>> :
             a \in 1..2, l \in FormatLists, m \in FormatLists }

FormatDates == { (* "2024-05-01" *) <<"2", "0", "2", "4", "-", "0", "5", "-", "0", "1">>, (* "2025-12-31" *) <<"2", "0", "2", "5", "-", "1", "2", "-", "3", "1">> }

InitFormat ==
    /\ MainIdle
    /\ MainStart
    /\ pc = "unit"
    /\ ClassifyIdle
    /\ fm_dict \in FormatDicts
    /\ fm_date \in FormatDates
    /\ fm_text = NoText
    /\ QueryIdle

Format ==
    /\ pc = "unit"
    /\ fm_text = NoText
    /\ fm_text' = format_as_text_block(fm_dict, fm_date)
    /\ UNCHANGED <<inputs, pc, locals, effects, fm_dict, fm_date>>
    /\ UNCHANGED <<cl_item, cl_verdict, rq_num, rq_resp, rq_out>>

SpecFormat == InitFormat /\ [][Format]_vars

\* run_query applied to one requested count and one response.
InitQuery ==
    /\ MainIdle
    /\ MainStart
    /\ pc = "unit"
    /\ ClassifyIdle
    /\ FormatIdle
    /\ rq_num \in 0..MaxNumResults
    /\ rq_resp \in Responses
    /\ rq_out = [sent |-> <<>>, result |-> <<>>]

RunQuery ==
    /\ pc = "unit"
    /\ rq_out.sent = <<>>
    /\ rq_out' = run_query((* "site:lever.co pm" *) <<"s", "i", "t", "e", ":", "l", "e", "v", "e", "r", ".", "c", "o", " ", "p", "m">>, rq_num, (* "tvly-k" *) <<"t", "v", "l", "y", "-", "k">>, DEFAULT_DAYS_BACK, rq_resp)
    /\ UNCHANGED <<inputs, pc, locals, effects, rq_num, rq_resp>>
    /\ UNCHANGED <<cl_item, cl_verdict, fm_dict, fm_date, fm_text>>

SpecQuery == InitQuery /\ [][RunQuery]_vars

(***************************************************************************)
(* What the properties are stated with                                     *)
(***************************************************************************)

\* p occurs in s: s is some text, then p, then some text.
Occurs(p, s) ==
    \E a \in 0..Len(s) :
        /\ a + Len(p) <= Len(s)
        /\ SubSeq(s, a + 1, a + Len(p)) = p

StartsWith(p, s) == Len(p) <= Len(s) /\ SubSeq(s, 1, Len(p)) = p

\* The lines of a text.
RECURSIVE SplitLines(_)
SplitLines(t) ==
    IF \A k \in 1..Len(t) : t[k] # "\n" THEN <<t>>
    ELSE LET k == CHOOSE n \in 1..Len(t) : t[n] = "\n" /\ \A m \in 1..(n - 1) : t[m] # "\n"
         IN  <<SubSeq(t, 1, k - 1)>> \o SplitLines(SubSeq(t, k + 1, Len(t)))

\* The run went through the loop and emitted its report.
Emitted == pc = "done" /\ summary # NoText

\* The emitted report: the file written, or the last text printed.
Report == IF to_file THEN file_text ELSE stdout[Len(stdout)]

\* How often the report lists url as a result.
ListedTimes(url) == Len(SelectSeq(SplitLines(Report), LAMBDA l : l = (* "URL: " *) <<"U", "R", "L", ":", " ">> \o url))

\* How many results the report lists.
ListedResults == Len(SelectSeq(SplitLines(Report), LAMBDA l : StartsWith((* "--- Result " *) <<"-", "-", "-", " ", "R", "e", "s", "u", "l", "t", " ">>, l)))

\* The seen-set as it was loaded at the start of the run.
LoadedHistory == load_job_history(history_file)

\* The events of one kind.
EventsOf(kind) == SelectSeq(events, LAMBDA e : e[1] = kind)

(***************************************************************************)
(* C1                                                                      *)
(***************************************************************************)

\* C1: no URL of the seen-set loaded from the history file is among the new
\* results of any query, nor listed as a result in the emitted report.
C1_HistoryNeverReported ==
    /\ \A k \in 1..Len(results_by_query) :
          \A j \in 1..Len(results_by_query[k].results) :
              results_by_query[k].results[j].url \notin LoadedHistory
    /\ Emitted => \A u \in LoadedHistory : ListedTimes(u.text) = 0

\* A run whose history holds a URL that a query returned as a job posting,
\* and whose report lists another result.
C1_Witness ==
    /\ Emitted
    /\ \E u \in LoadedHistory : \E k \in 1..Len(job_urls) : u \in job_urls[k]
    /\ ListedResults > 0

(***************************************************************************)
(* C2                                                                      *)
(***************************************************************************)

\* C2: when two queries of a run both returned a URL that is a job posting
\* and was not in the loaded history, the report lists that URL exactly once.
C2_SharedUrlListedOnce ==
    Emitted =>
        \A a \in 1..Len(job_urls) : \A b \in (a + 1)..Len(job_urls) :
            \A u \in (job_urls[a] \cap job_urls[b]) \ LoadedHistory :
                ListedTimes(PyStr(u)) = 1

(***************************************************************************)
(* C3                                                                      *)
(***************************************************************************)

HasAtsPattern(url) == \E p \in Range(ATS_JOB_PATTERNS) : Occurs(p, url)
HasBadSignal(url) == \E p \in Range(bad_signals) : Occurs(p, url)
HasJobKeyword(title) == \E p \in Range(job_title_signals) : Occurs(p, title)

\* The text of a field that is a string, or absent.
TextOf(v) == IF v.kind = "string" THEN v.text ELSE <<>>

\* C3: for an item whose url and title are strings (or absent), the verdict
\* is true when the lower-cased URL has an ATS or job-path pattern; otherwise
\* false when it has a bad-signal segment; otherwise it is whether the
\* lower-cased title has a job-title keyword.
C3_ThreeStepDecision ==
    (cl_verdict # "none" /\ cl_item.url.kind # "number" /\ cl_item.title.kind # "number") =>
        LET url == lower(TextOf(cl_item.url))
            title == lower(TextOf(cl_item.title))
        IN  /\ cl_verdict \in {"True", "False"}
            /\ HasAtsPattern(url) => cl_verdict = "True"
            /\ (~HasAtsPattern(url) /\ HasBadSignal(url)) => cl_verdict = "False"
            /\ (~HasAtsPattern(url) /\ ~HasBadSignal(url)) =>
                  (cl_verdict = "True" <=> HasJobKeyword(title))

\* A URL with greenhouse.io and /blog/, and a title without a keyword, was
\* classified as a job posting.
C3_Witness ==
    /\ cl_verdict = "True"
    /\ cl_item.url = Str((* "greenhouse.io/blog/" *) <<"g", "r", "e", "e", "n", "h", "o", "u", "s", "e", ".", "i", "o", "/", "b", "l", "o", "g", "/">>)
    /\ cl_item.title = Str((* "Our Company Blog" *) <<"O", "u", "r", " ", "C", "o", "m", "p", "a", "n", "y", " ", "B", "l", "o", "g">>)

(***************************************************************************)
(* C4                                                                      *)
(***************************************************************************)

\* C4: whatever the responses, main() is never aborted: a run that entered
\* the loop and stopped has sent one request per enabled query, in config
\* order, has emitted its report and has exit status 0.
C4_FailuresNeverAbort ==
    /\ pc # "crashed"
    /\ exit_status \in {-1, 0}
    /\ (StartupOutcome = "run" /\ pc \notin {"start", "loop", "sleep", "format"}) =>
          /\ Emitted
          /\ Len(requests) = Len(queries)
          /\ \A k \in 1..Len(requests) : requests[k].query = queries[k].string

(***************************************************************************)
(* C5                                                                      *)
(***************************************************************************)

\* C5 as stated: for a dict whose lists are all empty, the text is the "no
\* results" sentence and nothing else.
C5_OnlyTheSentence ==
    (fm_text # NoText /\ TotalResults(fm_dict) = 0) => fm_text = NO_RESULTS_SENTENCE

\* C5 amended: for a dict whose lists are all empty, the text is the header
\* line with the run date, the source line, an empty line and the "no
\* results" sentence, and nothing else.
C5_HeaderThenSentence ==
    (fm_text # NoText /\ \A k \in 1..Len(fm_dict) : fm_dict[k].results = <<>>) =>
        fm_text = (* "=== BOOLEAN SEARCH RESULTS - " *) <<"=", "=", "=", " ", "B", "O", "O", "L", "E", "A", "N", " ", "S", "E", "A", "R", "C", "H", " ", "R", "E", "S", "U", "L", "T", "S", " ", "-", " ">> \o fm_date \o (* " ===\n" *) <<" ", "=", "=", "=", "\n">>
                  \o (* "Source: Direct ATS search via Tavily (Greenhouse, Lever, Workday, ICIMS)\n" *) <<"S", "o", "u", "r", "c", "e", ":", " ", "D", "i", "r", "e", "c", "t", " ", "A", "T", "S", " ", "s", "e", "a", "r", "c", "h", " ", "v", "i", "a", " ", "T", "a", "v", "i", "l", "y", " ", "(", "G", "r", "e", "e", "n", "h", "o", "u", "s", "e", ",", " ", "L", "e", "v", "e", "r", ",", " ", "W", "o", "r", "k", "d", "a", "y", ",", " ", "I", "C", "I", "M", "S", ")", "\n">>
                  \o (* "\n" *) <<"\n">>
                  \o (* "No new job postings found via Boolean search today." *) <<"N", "o", " ", "n", "e", "w", " ", "j", "o", "b", " ", "p", "o", "s", "t", "i", "n", "g", "s", " ", "f", "o", "u", "n", "d", " ", "v", "i", "a", " ", "B", "o", "o", "l", "e", "a", "n", " ", "s", "e", "a", "r", "c", "h", " ", "t", "o", "d", "a", "y", ".">>

\* A dict of two queries, both without results, was formatted.
C5_Witness ==
    /\ fm_text # NoText
    /\ Len(fm_dict) = 2
    /\ \A k \in 1..Len(fm_dict) : fm_dict[k].results = <<>>

(***************************************************************************)
(* C6                                                                      *)
(***************************************************************************)

\* C6: a dry run over n >= 1 enabled queries, with or without an API key,
\* ends at once with exit status 0, having sent no request and having
\* printed, after the header, the n query descriptions in config order.
C6_DryRunListsQueries ==
    LET qs == SelectSeq(cfg_queries, LAMBDA q : q.enabled # "false")
    IN  (config_exists /\ dry_run /\ Len(qs) >= 1 /\ pc # "start") =>
            /\ pc = "done"
            /\ exit_status = 0
            /\ requests = <<>>
            /\ EventsOf("request") = <<>>
            /\ Len(stdout) = Len(qs) + 1
            /\ \A k \in 1..Len(qs) :
                  stdout[k + 1] = (* "  [" *) <<" ", " ", "[">> \o qs[k].name \o (* "]\n  " *) <<"]", "\n", " ", " ">> \o qs[k].string \o (* "\n" *) <<"\n">>

\* A finished dry run over two enabled queries without an API key.
C6_Witness ==
    /\ dry_run
    /\ api_key = <<>>
    /\ config_exists
    /\ Len(EnabledQueries(cfg_queries)) = 2
    /\ pc = "done"
    /\ Len(stdout) = 3

(***************************************************************************)
(* C7                                                                      *)
(***************************************************************************)

IsReportText(t) == StartsWith((* "=== BOOLEAN SEARCH RESULTS" *) <<"=", "=", "=", " ", "B", "O", "O", "L", "E", "A", "N", " ", "S", "E", "A", "R", "C", "H", " ", "R", "E", "S", "U", "L", "T", "S">>, t)

\* C7: with the config file missing, no enabled query or an empty API key,
\* the run sends no request and emits no report, it can only end, and it
\* ends with exit status 0.
C7_SetupErrorsExitCleanly ==
    (~config_exists \/ EnabledQueries(cfg_queries) = <<>> \/ api_key = <<>>) =>
        /\ requests = <<>>
        /\ events = <<>>
        /\ file_text = NoText
        /\ \A k \in 1..Len(stdout) : ~IsReportText(stdout[k])
        /\ pc \in {"start", "done"}
        /\ pc = "start" => (exit_status = -1 /\ ENABLED Next)
        /\ pc = "done" => exit_status = 0

\* A run with enabled queries and no dry-run flag that ended for want of an
\* API key.
C7_Witness ==
    /\ config_exists
    /\ EnabledQueries(cfg_queries) # <<>>
    /\ ~dry_run
    /\ api_key = <<>>
    /\ pc = "done"
    /\ exit_status = 0

(***************************************************************************)
(* C8                                                                      *)
(***************************************************************************)

\* C8: run_query sends exactly one request, and its max_results is the
\* smaller of the requested count and 20.
C8_CountCappedAt20 ==
    rq_out.sent # <<>> =>
        /\ Len(rq_out.sent) = 1
        /\ rq_out.sent[1].max_results <= 20
        /\ rq_out.sent[1].max_results <= rq_num
        /\ rq_out.sent[1].max_results \in {rq_num, 20}

\* A requested count of 25 was sent as 20.
C8_Witness ==
    /\ rq_num = 25
    /\ Len(rq_out.sent) = 1
    /\ rq_out.sent[1].max_results = 20

(***************************************************************************)
(* C9                                                                      *)
(***************************************************************************)

\* C9: with a positive delay, every pause directly follows the request of a
\* query that is not the last and directly precedes the request of the next
\* query; the report directly follows the last query's request; and a run
\* that emitted its report has paused once less than it has queries.
C9_PausesOnlyBetweenQueries ==
    (delay > 0 /\ pc # "start") =>
        /\ \A p \in 1..Len(events) :
              events[p][1] = "sleep" =>
                  /\ p > 1
                  /\ events[p - 1] = <<"request", events[p][2]>>
                  /\ events[p][2] < Len(queries) - 1
                  /\ p < Len(events) => events[p + 1] = <<"request", events[p][2] + 1>>
        /\ \A p \in 1..Len(events) :
              events[p][1] = "emit" =>
                  p > 1 /\ events[p - 1] = <<"request", Len(queries) - 1>>
        /\ Emitted => Len(EventsOf("sleep")) = Len(queries) - 1

\* A run of two queries with the default delay that paused once and emitted
\* its report.
C9_Witness ==
    /\ Emitted
    /\ delay > 0
    /\ Len(queries) = 2
    /\ Len(EventsOf("sleep")) = 1

(***************************************************************************)
(* C10                                                                     *)
(***************************************************************************)

\* C10: at the end of a run, the count of the summary line is the number of
\* results the emitted report lists, which is the total length of the lists
\* in results_by_query.
C10_SummaryMatchesReport ==
    Emitted =>
        /\ total_new = TotalResults(results_by_query)
        /\ summary = (* "[BOOLEAN] " *) <<"[", "B", "O", "O", "L", "E", "A", "N", "]", " ">> \o Dec(ListedResults) \o (* " new jobs found across " *) <<" ", "n", "e", "w", " ", "j", "o", "b", "s", " ", "f", "o", "u", "n", "d", " ", "a", "c", "r", "o", "s", "s", " ">>
                     \o Dec(Len(queries)) \o (* " queries" *) <<" ", "q", "u", "e", "r", "i", "e", "s">>

=============================================================================
